---- MODULE Spec2Model ----
(***************************************************************************)
(* A model of stremio-readdon.py: the menu of main(), the clone workflow,  *)
(* the custom-addon cache loader and the batch of concurrent               *)
(* process_account tasks joined by asyncio.gather.                         *)
(*                                                                         *)
(* Tasks are coroutines on one event loop: a task runs without             *)
(* interruption from one network await to the next (log_action is an       *)
(* async def that never suspends), so each action below is the code        *)
(* between two awaits of a remote call.                                    *)
(***************************************************************************)
EXTENDS Integers, Sequences, FiniteSets, TLC

\* ------------------------------------------------------------------ bounds
MaxLen == 2      \* longest remote Collection / cache file in the initial state
MaxRuns == 2     \* launches of the program in one behaviour
MaxUrls == 2     \* URLs typed into the interactive cache loader before 'done'

\* --------------------------------------------------------------- constants
CUSTOM_ADDONS_FILE == "custom_addons.json"
LOGIN_CSV_FILE == "stremio_logins.csv"

DEFAULT_ADDONS ==
  { "com.linvo.cinemeta",
    "org.stremio.opensubtitlesv3",
    "org.stremio.opensubtitles",
    "org.stremio.local" }

\* ------------------------------------------------------------ str methods
\* str.lower() on the letters that occur in identifiers
LowerChar(c) ==
  CASE c = "A" -> "a" [] c = "B" -> "b" [] c = "C" -> "c" [] c = "D" -> "d"
    [] c = "E" -> "e" [] c = "F" -> "f" [] c = "G" -> "g" [] c = "H" -> "h"
    [] c = "I" -> "i" [] c = "J" -> "j" [] c = "K" -> "k" [] c = "L" -> "l"
    [] c = "M" -> "m" [] c = "N" -> "n" [] c = "O" -> "o" [] c = "P" -> "p"
    [] c = "Q" -> "q" [] c = "R" -> "r" [] c = "S" -> "s" [] c = "T" -> "t"
    [] c = "U" -> "u" [] c = "V" -> "v" [] c = "W" -> "w" [] c = "X" -> "x"
    [] c = "Y" -> "y" [] c = "Z" -> "z" [] OTHER -> c

RECURSIVE Lower(_)
Lower(s) ==
  IF Len(s) = 0 THEN s
  ELSE LowerChar(SubSeq(s, 1, 1)) \o Lower(SubSeq(s, 2, Len(s)))

\* `sub in s`
Contains(s, sub) ==
  \E i \in 1..(Len(s) - Len(sub) + 1) : SubSeq(s, i, i + Len(sub) - 1) = sub

\* s.endswith(suffix)
EndsWith(s, suffix) ==
  /\ Len(s) >= Len(suffix)
  /\ SubSeq(s, Len(s) - Len(suffix) + 1, Len(s)) = suffix

\* s.replace(old, new): every non-overlapping occurrence, left to right
RECURSIVE Replace(_, _, _)
Replace(s, old, new) ==
  IF Len(s) < Len(old) THEN s
  ELSE IF SubSeq(s, 1, Len(old)) = old
       THEN new \o Replace(SubSeq(s, Len(old) + 1, Len(s)), old, new)
       ELSE SubSeq(s, 1, 1) \o Replace(SubSeq(s, 2, Len(s)), old, new)

\* ', '.join(names)
RECURSIVE Join(_)
Join(names) ==
  IF Len(names) = 0 THEN ""
  ELSE IF Len(names) = 1 THEN names[1]
  ELSE names[1] \o ", " \o Join(Tail(names))

\* -------------------------------------------------------------- the data
Accounts == {"a@x", "b@x"}
Password(e) == "pw:" \o e

\* tokens: the empty tuple is the blank auth_token of a CSV row
Blank == <<>>
StoredToken(e) == <<e, "stored">>
FreshToken(e) == <<e, "fresh">>

DefaultFlags == [official |-> FALSE, protected |-> FALSE]

Manifest(id, name) == [id |-> id, name |-> name]

Manifests ==
  { Manifest("com.linvo.cinemeta", "Cinemeta"),
    Manifest("com.TRAKT.tv", "Trakt"),
    Manifest("community.foo", "Foo") }

UrlOf(m) == "https://" \o m.id \o "/manifest.json"

Descriptor(m) == [manifest |-> m, transportUrl |-> UrlOf(m), flags |-> DefaultFlags]

Descriptors == { Descriptor(m) : m \in Manifests }

SeqsUpTo(S, n) == UNION { [1..k -> S] : k \in 0..n }

Collections == SeqsUpTo(Descriptors, MaxLen)

\* (variant: the keyword test without .lower())
KeepsAddonCaseSensitive(addon) ==
  \/ addon.manifest.id \in DEFAULT_ADDONS
  \/ Contains(addon.manifest.id, "trakt")

\* the test of process_account's comprehension
KeepsAddon(addon) ==
  \/ addon.manifest.id \in DEFAULT_ADDONS
  \/ Contains(Lower(addon.manifest.id), "trakt")

\* (variant: the keyword test left out)
ClonesAddonNotDefault(addon) == addon.manifest.id \notin DEFAULT_ADDONS

\* the test of clone_addons's comprehension
ClonesAddon(addon) ==
  /\ addon.manifest.id \notin DEFAULT_ADDONS
  /\ ~Contains(Lower(addon.manifest.id), "trakt")

\* (variant: the list extended in place is the shared one,
\* custom_addons += [...]; updated_addons = custom_addons)
ExtendSharedList(addons, custom) ==
  [ updated_addons |-> custom \o SelectSeq(addons, KeepsAddon),
    custom_addons  |-> custom \o SelectSeq(addons, KeepsAddon) ]

\* updated_addons = [...]; updated_addons += custom_addons.
\* += extends the left list in place; the left list is the fresh list the
\* comprehension built, so the shared custom_addons list keeps its value.
ExtendWithCustom(addons, custom) ==
  [ updated_addons |-> SelectSeq(addons, KeepsAddon) \o custom,
    custom_addons  |-> custom ]

\* json.dump / json.load of a list of descriptors: the file holds text, here
\* one row of field values per descriptor
JsonDump(list) ==
  [ i \in 1..Len(list) |->
      << list[i].manifest.id, list[i].manifest.name, list[i].transportUrl,
         list[i].flags.official, list[i].flags.protected >> ]

JsonLoad(text) ==
  [ i \in 1..Len(text) |->
      [ manifest |-> Manifest(text[i][1], text[i][2]),
        transportUrl |-> text[i][3],
        flags |-> [official |-> text[i][4], protected |-> text[i][5]] ] ]

\* s.strip() for the blanks a typed line can carry
RECURSIVE Strip(_)
Strip(s) ==
  IF Len(s) = 0 THEN s
  ELSE IF SubSeq(s, 1, 1) = " " THEN Strip(SubSeq(s, 2, Len(s)))
  ELSE IF SubSeq(s, Len(s), Len(s)) = " " THEN Strip(SubSeq(s, 1, Len(s) - 1))
  ELSE s

\* ------------------------------------------------------------- the state
VARIABLES
  csvFile,        \* stremio_logins.csv: [exists, rows: email -> [password, auth_token]]
  cacheFile,      \* custom_addons.json: [exists, text]
  remote,         \* the service: email -> the account's addon collection
  logged,         \* lines this run appended to stremio_log.txt, by their [tag]
  stdout,         \* what main and clone_addons printed in this run
  mainpc,         \* where main() is
  runs,           \* launches of the program so far
  custom_addons,  \* main's list, shared by reference with every task
  login_data,     \* main's dict, shared by reference with every task
  process_count,  \* main's counter
  pc,             \* email -> where that account's process_account task is
  auth_key,       \* email -> the task's local auth_key
  payload,        \* email -> the 'addons' of the AddonCollectionSet in flight
  calls,          \* email -> the remote calls made for it in this run
  option,         \* main's local: the menu choice of this run
  prev,           \* what the run before this one left behind
  hung,           \* the accounts whose request in flight never gets a response
  entered         \* the lines typed at the loader's prompt in this run, with
                  \* what fetch_manifest got for each

vars ==
  << csvFile, cacheFile, remote, logged, stdout, mainpc, runs, custom_addons,
     login_data, process_count, pc, auth_key, payload, calls, option, prev, hung, entered >>

files == << csvFile, cacheFile >>
mainlocals == << custom_addons, login_data, process_count, option >>
tasklocals == << pc, auth_key, payload >>

Tags == Accounts \cup {"INIT", "UPDATE"}

NoTasks == [e \in Accounts |-> "none"]
NoKeys == [e \in Accounts |-> Blank]
NoPayload == [e \in Accounts |-> <<>>]
NoCalls == [e \in Accounts |-> <<>>]
NoLines == [t \in Tags |-> <<>>]

\* (variant: the test inverted, `if not auth_key:`)
TruthyInverted(token) == token = Blank

\* `if auth_key:` -- the empty string is false
Truthy(token) == token # Blank

\* log_action(email, message): one line appended under the tag
LogAction(log, tag, message) == [log EXCEPT ![tag] = Append(@, message)]

RECURSIVE LogAll(_, _, _)
LogAll(log, tag, messages) ==
  IF Len(messages) = 0 THEN log
  ELSE LogAll(LogAction(log, tag, Head(messages)), tag, Tail(messages))

\* a remote call goes out / comes back
Issue(history, e, op, token) ==
  [history EXCEPT ![e] = Append(@, [op |-> op, authKey |-> token, result |-> "pending"])]

Settle(history, e, ok) ==
  [history EXCEPT ![e][Len(history[e])].result = IF ok THEN "ok" ELSE "failed"]

\* (variant: the join waits for tasks that succeeded)
FinishedOnlyDone(p) == p \in {"none", "done"}

\* asyncio.gather: a task that returned, after success or after the handler
\* of line 158; an account without a row has no task
Finished(p) == p \in {"none", "done", "failed"}

\* the run that just ended, as the next launch finds it
NoRun == [option |-> "", done |-> {}, cloned |-> {}, remote |-> <<>>]

Summary ==
  [ option |-> option,
    done   |-> {e \in Accounts : pc[e] = "done"},
    cloned |-> {e \in Accounts : option = "2" /\ Len(calls[e]) = 2
                                  /\ calls[e][2].result = "ok"},
    remote |-> remote ]

\* ------------------------------------------------------- initial states
Cinemeta == Descriptor(Manifest("com.linvo.cinemeta", "Cinemeta"))
Trakt == Descriptor(Manifest("com.TRAKT.tv", "Trakt"))
Foo == Descriptor(Manifest("community.foo", "Foo"))

NoCacheFile == [exists |-> FALSE, text |-> <<>>]
CacheFileOf(list) == [exists |-> TRUE, text |-> JsonDump(list)]

CsvFileOf(emails, cached) ==
  [ exists |-> TRUE,
    rows |-> [e \in emails |->
                [ password |-> Password(e),
                  auth_token |-> IF e \in cached THEN StoredToken(e) ELSE Blank ]] ]

\* a row for every account, with and without a stored token (or no CSV file at
\* all); the collections of the worked scenario
NoCsvFile == [exists |-> FALSE, rows |-> <<>>]

InitBatch ==
  /\ csvFile \in { CsvFileOf(Accounts, cached) : cached \in SUBSET Accounts } \cup {NoCsvFile}
  /\ cacheFile = CacheFileOf(<<Foo, Trakt>>)
  /\ remote = [e \in Accounts |-> IF e = "a@x" THEN <<Cinemeta, Foo, Trakt>> ELSE <<Foo>>]

\* one row; every collection of the processed account with every cache
InitProcess ==
  /\ csvFile = CsvFileOf({"b@x"}, {})
  /\ cacheFile \in { CacheFileOf(c) : c \in Collections }
  /\ remote \in { [e \in Accounts |-> IF e = "b@x" THEN c ELSE <<>>] : c \in Collections }

\* one row; every collection of the cloned and of the processed account
InitClone ==
  /\ csvFile = CsvFileOf({"b@x"}, {})
  /\ cacheFile = CacheFileOf(<<Trakt>>)
  /\ remote \in [Accounts -> Collections]

\* one row; no cache file, so that the loader prompts
InitLoader ==
  /\ csvFile = CsvFileOf({"b@x"}, {})
  /\ cacheFile = NoCacheFile
  /\ remote = [e \in Accounts |-> <<Cinemeta, Foo>>]

Init ==
  /\ InitBatch \/ InitProcess \/ InitClone \/ InitLoader
  /\ logged = NoLines
  /\ stdout = <<>>
  /\ mainpc = "start"
  /\ runs = 0
  /\ custom_addons = <<>>
  /\ login_data = <<>>
  /\ process_count = 0
  /\ pc = NoTasks
  /\ auth_key = NoKeys
  /\ payload = NoPayload
  /\ calls = NoCalls
  /\ option = ""
  /\ prev = NoRun
  /\ hung = {}
  /\ entered = <<>>

\* ------------------------------------------------------------- main()
\* asyncio.run(main()) up to the menu's input(): a new process, new locals.
\* Only the answer '2' is tested (line 186): "1" stands for every other answer.
Launch ==
  /\ mainpc \in {"start", "exited", "crashed"}
  /\ runs < MaxRuns
  /\ runs' = runs + 1
  /\ \E choice \in {"1", "2"} :
       /\ option' = choice
       /\ mainpc' = IF choice = "2" THEN "clone" ELSE "load"
  /\ custom_addons' = <<>>
  /\ login_data' = <<>>
  /\ process_count' = 0
  /\ pc' = NoTasks
  /\ auth_key' = NoKeys
  /\ payload' = NoPayload
  /\ calls' = NoCalls
  /\ logged' = NoLines
  /\ stdout' = <<"Options:">>
  /\ prev' = IF runs = 0 THEN NoRun ELSE Summary
  /\ hung' = {}
  /\ entered' = <<>>
  /\ UNCHANGED << files, remote >>

\* (variant: the file opened in append mode)
WriteCacheAppending(file, list) ==
  [exists |-> TRUE, text |-> file.text \o JsonDump(list)]

\* with open(CUSTOM_ADDONS_FILE, 'w') as file: json.dump(list, file)
WriteCache(file, list) == [exists |-> TRUE, text |-> JsonDump(list)]

\* (variant: the cache file opened for writing before the requests are made)
CloneAbortedAfterOpen(reason) ==
  /\ stdout' = Append(stdout, "Error cloning addons: " \o reason)
  /\ cacheFile' = [exists |-> TRUE, text |-> <<>>]
  /\ logged' = logged

\* lines 125-126: the exception of line 108 or 109 ends the workflow
CloneAborted(reason) ==
  /\ stdout' = Append(stdout, "Error cloning addons: " \o reason)
  /\ UNCHANGED << cacheFile, logged >>

\* clone_addons(email, password): no other coroutine runs beside it
CloneAddons ==
  /\ mainpc = "clone"
  /\ \E email \in Accounts, loginOk \in BOOLEAN, getOk \in BOOLEAN :
       LET key == FreshToken(email)
           addons == remote[email]
           cloned == SelectSeq(addons, ClonesAddon)
           names == [i \in 1..Len(cloned) |-> cloned[i].manifest.name]
           c1 == Settle(Issue(calls, email, "Login", Blank), email, loginOk)
           c2 == Settle(Issue(c1, email, "AddonCollectionGet", key), email, getOk)
       IN IF ~loginOk THEN
            /\ calls' = c1
            /\ CloneAborted("Login")
          ELSE IF ~getOk THEN
            /\ calls' = c2
            /\ CloneAborted("AddonCollectionGet")
          ELSE
            /\ calls' = c2
            /\ cacheFile' = WriteCache(cacheFile, cloned)
            /\ logged' = LogAction(logged, email, "Cloned addons: " \o Join(names) \o ".")
            /\ stdout' = Append(stdout, "Cloned addons saved to " \o CUSTOM_ADDONS_FILE \o ".")
  /\ mainpc' = "exited"
  /\ UNCHANGED << csvFile, remote, runs, mainlocals, tasklocals, prev, hung, entered >>

\* load_custom_addons(): the lines typed before the sentinel 'done', each with
\* what fetch_manifest got for it (None on any failure)
TypedLines ==
  { "https://community.foo/configure",
    " https://com.TRAKT.tv/manifest.json ",
    "https://community.foo/configure/v2/configure" }

Entries == [typed : TypedLines, ok : BOOLEAN]

\* url = input(...).strip(); if url.endswith('/configure'): url = url.replace(...)
EnteredUrl(typed) ==
  LET url == Strip(typed)
  IN IF EndsWith(url, "/configure") THEN Replace(url, "/configure", "/manifest.json")
     ELSE url

\* the manifest document a transport URL serves
Served(url) ==
  IF Contains(url, "community.foo") THEN Manifest("community.foo", "Foo")
  ELSE Manifest("com.TRAKT.tv", "Trakt")

\* (variant: custom_addons.insert(0, addon))
RECURSIVE PromptLoopNewestFirst(_)
PromptLoopNewestFirst(entries) ==
  IF Len(entries) = 0 THEN <<>>
  ELSE LET entry == Head(entries)
           url == EnteredUrl(entry.typed)
           addon == [ manifest |-> Served(url),
                      transportUrl |-> url,
                      flags |-> DefaultFlags ]
       IN PromptLoopNewestFirst(Tail(entries)) \o (IF entry.ok THEN <<addon>> ELSE <<>>)

\* lines 56-77: the list built by the loop, one pass per line typed
RECURSIVE PromptLoop(_)
PromptLoop(entries) ==
  IF Len(entries) = 0 THEN <<>>
  ELSE LET entry == Head(entries)
           url == EnteredUrl(entry.typed)
           addon == [ manifest |-> Served(url),
                      transportUrl |-> url,
                      flags |-> DefaultFlags ]
       IN (IF entry.ok THEN <<addon>> ELSE <<>>) \o PromptLoop(Tail(entries))

FetchManifestLines(entries) ==
  [ i \in 1..Len(entries) |->
      IF entries[i].ok
      THEN "Fetched manifest from " \o EnteredUrl(entries[i].typed) \o "."
      ELSE "Failed to fetch manifest from " \o EnteredUrl(entries[i].typed) \o ". Error: " ]

LoadCustomAddons ==
  /\ mainpc = "load"
  /\ IF cacheFile.exists
     THEN /\ custom_addons' = JsonLoad(cacheFile.text)
          /\ UNCHANGED << cacheFile, logged, entered >>
     ELSE \E entries \in SeqsUpTo(Entries, MaxUrls) :
            /\ entered' = entries
            /\ custom_addons' = PromptLoop(entries)
            /\ cacheFile' = WriteCache(cacheFile, PromptLoop(entries))
            /\ logged' = LogAll(logged, "INIT", FetchManifestLines(entries))
  /\ mainpc' = "csv"
  /\ UNCHANGED << csvFile, remote, stdout, runs, login_data, process_count,
                  tasklocals, calls, option, prev, hung >>

\* (variant: a missing CSV file read as a table without rows)
ReadLoginCsvMissingIsEmpty ==
  /\ mainpc = "csv"
  /\ IF csvFile.exists
     THEN /\ login_data' = csvFile.rows
          /\ pc' = [e \in Accounts |-> IF e \in DOMAIN csvFile.rows THEN "init" ELSE "none"]
          /\ auth_key' = [e \in Accounts |->
                            IF e \in DOMAIN csvFile.rows THEN csvFile.rows[e].auth_token
                            ELSE Blank]
          /\ process_count' = Cardinality(DOMAIN csvFile.rows)
          /\ mainpc' = "gather"
     ELSE /\ mainpc' = "gather"
          /\ UNCHANGED << login_data, pc, auth_key, process_count >>
  /\ UNCHANGED << files, remote, logged, stdout, runs, custom_addons, payload, calls,
                  option, prev, hung, entered >>

\* open(LOGIN_CSV_FILE) ... for row in reader ... tasks.append(process_account(...))
ReadLoginCsv ==
  /\ mainpc = "csv"
  /\ IF csvFile.exists
     THEN /\ login_data' = csvFile.rows
          /\ pc' = [e \in Accounts |-> IF e \in DOMAIN csvFile.rows THEN "init" ELSE "none"]
          /\ auth_key' = [e \in Accounts |->
                            IF e \in DOMAIN csvFile.rows THEN csvFile.rows[e].auth_token
                            ELSE Blank]
          /\ process_count' = Cardinality(DOMAIN csvFile.rows)
          /\ mainpc' = "gather"
     ELSE /\ mainpc' = "crashed"
          /\ UNCHANGED << login_data, pc, auth_key, process_count >>
  /\ UNCHANGED << files, remote, logged, stdout, runs, custom_addons, payload, calls,
                  option, prev, hung, entered >>

\* ------------------------------------------------- process_account(e)
\* (variant: update_addons is given the token of the CSV row)
FilteringWithRowToken(e, addons, message) ==
  LET lists == ExtendWithCustom(addons, custom_addons)
  IN /\ payload' = [payload EXCEPT ![e] = lists.updated_addons]
     /\ custom_addons' = lists.custom_addons
     /\ logged' = LogAll(logged, e, << message, "Processed addons successfully." >>)
     /\ calls' = Issue(Settle(calls, e, TRUE), e, "AddonCollectionSet",
                       csvFile.rows[e].auth_token)
     /\ pc' = [pc EXCEPT ![e] = "update"]

\* lines 151-156, up to the await of update_addons's request
Filtering(e, addons, message) ==
  LET lists == ExtendWithCustom(addons, custom_addons)
  IN /\ payload' = [payload EXCEPT ![e] = lists.updated_addons]
     /\ custom_addons' = lists.custom_addons
     /\ logged' = LogAll(logged, e, << message, "Processed addons successfully." >>)
     /\ calls' = Issue(Settle(calls, e, TRUE), e, "AddonCollectionSet", auth_key[e])
     /\ pc' = [pc EXCEPT ![e] = "update"]

\* (variant: the error line goes under the UPDATE tag of update_addons)
FailedUnderUpdateTag(e) ==
  /\ logged' = LogAction(logged, "UPDATE", "Error: " \o calls[e][Len(calls[e])].op)
  /\ calls' = Settle(calls, e, FALSE)
  /\ pc' = [pc EXCEPT ![e] = "failed"]

\* lines 158-159: the exception of the failed call is caught and logged
Failed(e) ==
  /\ logged' = LogAction(logged, e, "Error: " \o calls[e][Len(calls[e])].op)
  /\ calls' = Settle(calls, e, FALSE)
  /\ pc' = [pc EXCEPT ![e] = "failed"]

\* (variant: the new token is stored under every key of login_data)
AuthenticatedStoresEverywhere(e, next) ==
  /\ auth_key' = [auth_key EXCEPT ![e] = FreshToken(e)]
  /\ login_data' = [f \in DOMAIN login_data |->
                      [login_data[f] EXCEPT !.auth_token = FreshToken(e)]]
  /\ calls' = Issue(Settle(calls, e, TRUE), e, "AddonCollectionGet", FreshToken(e))
  /\ pc' = [pc EXCEPT ![e] = next]

\* lines 139-141 and 146-148, from the login's response to the next request
Authenticated(e, next) ==
  /\ auth_key' = [auth_key EXCEPT ![e] = FreshToken(e)]
  /\ login_data' = [login_data EXCEPT ![e].auth_token = FreshToken(e)]
  /\ calls' = Issue(Settle(calls, e, TRUE), e, "AddonCollectionGet", FreshToken(e))
  /\ pc' = [pc EXCEPT ![e] = next]

\* where a task awaits the response of a request
Waiting(p) ==
  p \in {"get_stored", "relogin", "get_relogin", "login", "get_login", "update"}

\* (variant: blocking requests, each holding the event loop until it returns)
CanReturnWhenNoneHangs(e) == hung = {}

\* `async with session.post(...) as response`: the task resumes when its own
\* response arrives, whatever the other tasks are waiting for
CanReturn(e) == e \notin hung

\* the request of e that is in flight is never answered: the task stays
\* suspended at its await
Hang(e) ==
  /\ mainpc = "gather"
  /\ Waiting(pc[e])
  /\ e \notin hung
  /\ hung' = hung \cup {e}
  /\ UNCHANGED << files, remote, logged, stdout, mainpc, runs, mainlocals, tasklocals,
                  calls, prev, entered >>

\* (variant: the collection is requested first whatever the token of the row)
StartFetchesFirst(e) ==
  /\ mainpc = "gather"
  /\ pc[e] = "init"
  /\ calls' = Issue(calls, e, "AddonCollectionGet", auth_key[e])
  /\ pc' = [pc EXCEPT ![e] = "get_stored"]
  /\ logged' = logged
  /\ UNCHANGED << files, remote, stdout, mainpc, runs, mainlocals, auth_key,
                  payload, option, prev, hung, entered >>

\* the task starts: lines 131-135 or 143-146, up to the first request
Start(e) ==
  /\ mainpc = "gather"
  /\ pc[e] = "init"
  /\ IF Truthy(auth_key[e])
     THEN /\ calls' = Issue(calls, e, "AddonCollectionGet", auth_key[e])
          /\ pc' = [pc EXCEPT ![e] = "get_stored"]
          /\ logged' = logged
     ELSE /\ logged' = LogAction(logged, e, "No stored token. Logging in...")
          /\ calls' = Issue(calls, e, "Login", Blank)
          /\ pc' = [pc EXCEPT ![e] = "login"]
  /\ UNCHANGED << files, remote, stdout, mainpc, runs, mainlocals, auth_key,
                  payload, option, prev, hung, entered >>

\* line 135 returns or raises
GetStored(e) ==
  /\ pc[e] = "get_stored"
  /\ CanReturn(e)
  /\ \E ok \in BOOLEAN :
       IF ok
       THEN /\ Filtering(e, remote[e], "Authenticated with stored auth token.")
            /\ UNCHANGED << login_data, auth_key >>
       ELSE /\ logged' = LogAction(logged, e, "Stored auth token failed. Re-authenticating...")
            /\ calls' = Issue(Settle(calls, e, FALSE), e, "Login", Blank)
            /\ pc' = [pc EXCEPT ![e] = "relogin"]
            /\ UNCHANGED << custom_addons, login_data, auth_key, payload >>
  /\ UNCHANGED << files, remote, stdout, mainpc, runs, process_count, option, prev, hung, entered >>

\* line 139 returns or raises
Relogin(e) ==
  /\ pc[e] = "relogin"
  /\ CanReturn(e)
  /\ \E ok \in BOOLEAN :
       IF ok
       THEN /\ Authenticated(e, "get_relogin")
            /\ logged' = logged
       ELSE /\ Failed(e)
            /\ UNCHANGED << login_data, auth_key >>
  /\ UNCHANGED << files, remote, stdout, mainpc, runs, custom_addons,
                  process_count, payload, option, prev, hung, entered >>

\* (variant: a failed second fetch is tried once more)
GetReloginRetried(e) ==
  /\ pc[e] = "get_relogin"
  /\ CanReturn(e)
  /\ \E ok \in BOOLEAN :
       IF ok
       THEN Filtering(e, remote[e], "Re-authenticated and updated auth token.")
       ELSE IF Cardinality({i \in 1..Len(calls[e]) : calls[e][i].op = "AddonCollectionGet"}) < 3
       THEN /\ calls' = Issue(Settle(calls, e, FALSE), e, "AddonCollectionGet", auth_key[e])
            /\ UNCHANGED << custom_addons, payload, pc, logged >>
       ELSE /\ Failed(e)
            /\ UNCHANGED << custom_addons, payload >>
  /\ UNCHANGED << files, remote, stdout, mainpc, runs, login_data, process_count,
                  auth_key, option, prev, hung, entered >>

\* line 141 returns or raises
GetRelogin(e) ==
  /\ pc[e] = "get_relogin"
  /\ CanReturn(e)
  /\ \E ok \in BOOLEAN :
       IF ok
       THEN Filtering(e, remote[e], "Re-authenticated and updated auth token.")
       ELSE /\ Failed(e)
            /\ UNCHANGED << custom_addons, payload >>
  /\ UNCHANGED << files, remote, stdout, mainpc, runs, login_data, process_count,
                  auth_key, option, prev, hung, entered >>

\* line 146 returns or raises
Login(e) ==
  /\ pc[e] = "login"
  /\ CanReturn(e)
  /\ \E ok \in BOOLEAN :
       IF ok
       THEN /\ Authenticated(e, "get_login")
            /\ logged' = logged
       ELSE /\ Failed(e)
            /\ UNCHANGED << login_data, auth_key >>
  /\ UNCHANGED << files, remote, stdout, mainpc, runs, custom_addons,
                  process_count, payload, option, prev, hung, entered >>

\* line 148 returns or raises
GetLogin(e) ==
  /\ pc[e] = "get_login"
  /\ CanReturn(e)
  /\ \E ok \in BOOLEAN :
       IF ok
       THEN Filtering(e, remote[e], "Logged in and stored new auth token.")
       ELSE /\ Failed(e)
            /\ UNCHANGED << custom_addons, payload >>
  /\ UNCHANGED << files, remote, stdout, mainpc, runs, login_data, process_count,
                  auth_key, option, prev, hung, entered >>

\* (variant: a failed AddonCollectionSet is sent once more)
UpdateRetried(e) ==
  /\ pc[e] = "update"
  /\ CanReturn(e)
  /\ \E ok \in BOOLEAN :
       IF ok
       THEN /\ remote' = [remote EXCEPT ![e] = payload[e]]
            /\ logged' = LogAction(logged, "UPDATE", "Addons updated successfully.")
            /\ calls' = Settle(calls, e, TRUE)
            /\ pc' = [pc EXCEPT ![e] = "done"]
       ELSE IF Len(calls[e]) < 6
       THEN /\ calls' = Issue(Settle(calls, e, FALSE), e, "AddonCollectionSet", auth_key[e])
            /\ UNCHANGED << remote, logged, pc >>
       ELSE /\ Failed(e)
            /\ remote' = remote
  /\ UNCHANGED << files, stdout, mainpc, runs, mainlocals, auth_key, payload, option, prev, hung, entered >>

\* update_addons: the AddonCollectionSet request returns or raises
Update(e) ==
  /\ pc[e] = "update"
  /\ CanReturn(e)
  /\ \E ok \in BOOLEAN :
       IF ok
       THEN /\ remote' = [remote EXCEPT ![e] = payload[e]]
            /\ logged' = LogAction(logged, "UPDATE", "Addons updated successfully.")
            /\ calls' = Settle(calls, e, TRUE)
            /\ pc' = [pc EXCEPT ![e] = "done"]
       ELSE /\ Failed(e)
            /\ remote' = remote
  /\ UNCHANGED << files, stdout, mainpc, runs, mainlocals, auth_key, payload, option, prev, hung, entered >>

\* asyncio.gather returns, the session closes, main prints and returns
JoinAll ==
  /\ mainpc = "gather"
  /\ \A e \in Accounts : Finished(pc[e])
  /\ stdout' = Append(stdout, "Processed " \o ToString(process_count) \o " accounts successfully.")
  /\ mainpc' = "exited"
  /\ UNCHANGED << files, remote, logged, runs, mainlocals, tasklocals, calls, prev, hung, entered >>

Next ==
  \/ Launch
  \/ CloneAddons
  \/ LoadCustomAddons
  \/ ReadLoginCsv
  \/ \E e \in Accounts : Start(e)
  \/ \E e \in Accounts : GetStored(e)
  \/ \E e \in Accounts : Relogin(e)
  \/ \E e \in Accounts : GetRelogin(e)
  \/ \E e \in Accounts : Login(e)
  \/ \E e \in Accounts : GetLogin(e)
  \/ \E e \in Accounts : Update(e)
  \/ \E e \in Accounts : Hang(e)
  \/ JoinAll

Spec == Init /\ [][Next]_vars

\* what the event loop does for the task of e when it is ready to run
TaskStep(e) ==
  \/ Start(e) \/ GetStored(e) \/ Relogin(e) \/ GetRelogin(e)
  \/ Login(e) \/ GetLogin(e) \/ Update(e)

\* the event loop runs every task that is ready, and gather returns once all
\* tasks are over; the user is not obliged to launch the program, and the
\* service is not obliged to leave a request unanswered
Fairness ==
  /\ \A e \in Accounts : WF_vars(TaskStep(e))
  /\ WF_vars(JoinAll)

\* the batches of two accounts, where tasks run side by side
InitFair == InitBatch /\ Init

SpecFair == InitFair /\ [][Next]_vars /\ Fairness

\* ================================================================ claims
InBatch == option = "1" /\ mainpc \in {"gather", "exited"}

HasRow(e) == csvFile.exists /\ e \in DOMAIN csvFile.rows

StoredRow(e) == HasRow(e) /\ csvFile.rows[e].auth_token # Blank

BlankRow(e) == HasRow(e) /\ csvFile.rows[e].auth_token = Blank

CallsOf(e, op) == { i \in 1..Len(calls[e]) : calls[e][i].op = op }

\* manifest id contains 'trakt' in any mix of cases
MentionsTrakt(id) ==
  \E i \in 1..(Len(id) - 4) :
    \A k \in 1..5 :
      SubSeq(id, i + k - 1, i + k - 1) \in {SubSeq("trakt", k, k), SubSeq("TRAKT", k, k)}

Allowed(addon) == addon.manifest.id \in DEFAULT_ADDONS \/ MentionsTrakt(addon.manifest.id)

\* the subsequence of a Collection that is allow-listed or keyword-matched
RECURSIVE KeptInOrder(_)
KeptInOrder(c) ==
  IF c = <<>> THEN <<>>
  ELSE (IF Allowed(Head(c)) THEN <<Head(c)>> ELSE <<>>) \o KeptInOrder(Tail(c))

\* the subsequence of a Collection that is neither
RECURSIVE DroppedInOrder(_)
DroppedInOrder(c) ==
  IF c = <<>> THEN <<>>
  ELSE (IF Allowed(Head(c)) THEN <<>> ELSE <<Head(c)>>) \o DroppedInOrder(Tail(c))

\* C1: the Collection a task sends to replaceCollection is the allow-listed or
\* keyword-matched subsequence of the fetched Collection, in order, followed by
\* the whole cache in cache order: nothing reordered, dropped or de-duplicated.
C1_PayloadIsKeptThenCache ==
  \A e \in Accounts :
    pc[e] = "update" =>
      /\ calls[e][Len(calls[e])].op = "AddonCollectionSet"
      /\ payload[e] = KeptInOrder(remote[e]) \o custom_addons
      /\ JsonDump(custom_addons) = cacheFile.text

\* C1 witness: the worked scenario, with an addon in both segments sent twice
C1_Witness ==
  \E e \in Accounts :
    /\ pc[e] = "update"
    /\ remote[e] = <<Cinemeta, Foo, Trakt>>
    /\ custom_addons = <<Foo, Trakt>>
    /\ payload[e] = <<Cinemeta, Trakt, Foo, Trakt>>

\* C2: for a row with a stored token the first remote call is fetchCollection
\* with that token; Authenticate is called only after that fetch failed, and
\* never when it succeeded.
C2_OptimisticToken ==
  \A e \in Accounts :
    (InBatch /\ StoredRow(e) /\ calls[e] # <<>>) =>
      /\ calls[e][1].op = "AddonCollectionGet"
      /\ calls[e][1].authKey = csvFile.rows[e].auth_token
      /\ \A i \in CallsOf(e, "Login") : i > 1 /\ calls[e][1].result = "failed"

\* C2 witness: a stored token that worked, the account done without any login
C2_Witness ==
  \E e \in Accounts :
    /\ InBatch /\ StoredRow(e) /\ pc[e] = "done"
    /\ calls[e][1].result = "ok"
    /\ CallsOf(e, "Login") = {}

TaskOver(e) == pc[e] \in {"done", "failed"}

ErrorLogged(e) ==
  /\ logged[e] # <<>>
  /\ SubSeq(logged[e][Len(logged[e])], 1, 7) = "Error: "

\* C3 as stated: after a failed first fetch with a stored token there are
\* exactly one Authenticate and exactly one further fetchCollection; a second
\* failed fetch leaves the account Failed, logged, with no replaceCollection.
C3_AsStated ==
  \A e \in Accounts :
    (InBatch /\ StoredRow(e) /\ TaskOver(e) /\ calls[e][1].result = "failed") =>
      /\ Cardinality(CallsOf(e, "Login")) = 1
      /\ Cardinality(CallsOf(e, "AddonCollectionGet")) = 2
      /\ calls[e][Len(calls[e])].result = "failed" =>
           /\ pc[e] = "failed"
           /\ ErrorLogged(e)
           /\ CallsOf(e, "AddonCollectionSet") = {}

\* C3 amended: after a failed first fetch with a stored token there is exactly
\* one Authenticate; if it succeeds there is exactly one further
\* fetchCollection, with the new token, and if it fails there is none and the
\* account ends Failed; a failed second fetch leaves the account Failed with
\* an error line under its identifier, no replaceCollection, and main running.
C3_OneReloginOneRetry ==
  \A e \in Accounts :
    (InBatch /\ StoredRow(e) /\ TaskOver(e) /\ calls[e][1].result = "failed") =>
      /\ CallsOf(e, "Login") = {2}
      /\ IF calls[e][2].result = "ok"
         THEN /\ CallsOf(e, "AddonCollectionGet") = {1, 3}
              /\ calls[e][3].authKey = login_data[e].auth_token
              /\ calls[e][3].authKey # csvFile.rows[e].auth_token
              /\ calls[e][3].result = "failed" =>
                   /\ pc[e] = "failed"
                   /\ ErrorLogged(e)
                   /\ Len(calls[e]) = 3
                   /\ mainpc = "gather" =>
                        \/ ENABLED (JoinAll \/ \E f \in Accounts : TaskStep(f))
                        \/ hung # {}
         ELSE /\ CallsOf(e, "AddonCollectionGet") = {1}
              /\ Len(calls[e]) = 2
              /\ pc[e] = "failed"
              /\ ErrorLogged(e)

\* C3 witness: stored token fails, re-login works, the retry fails too
C3_Witness ==
  \E e \in Accounts :
    /\ InBatch /\ StoredRow(e) /\ pc[e] = "failed" /\ mainpc = "exited"
    /\ Len(calls[e]) = 3
    /\ calls[e][1].result = "failed"
    /\ calls[e][2].op = "Login" /\ calls[e][2].result = "ok"
    /\ calls[e][3].op = "AddonCollectionGet" /\ calls[e][3].result = "failed"

LoggedIn(e) == \E i \in CallsOf(e, "Login") : calls[e][i].result = "ok"

\* C4: once the Authenticate of a blank-token row has succeeded, the store
\* file holds the new token (it is rewritten right after authentication).
C4_StoreRewrittenAfterLogin ==
  \A e \in Accounts :
    (InBatch /\ BlankRow(e) /\ LoggedIn(e)) =>
      csvFile.rows[e].auth_token = login_data[e].auth_token

\* C5: when a batch run has completed, the store file's token column equals
\* the in-memory credential table.
C5_StoreEqualsTableAtExit ==
  (mainpc = "exited" /\ option = "1") =>
    \A e \in DOMAIN login_data :
      csvFile.rows[e].auth_token = login_data[e].auth_token

NoCallFailed(e) == \A i \in 1..Len(calls[e]) : calls[e][i].result # "failed"

C6_State ==
  InBatch =>
    /\ \A a \in Accounts :
         /\ pc[a] = "failed" =>
              ErrorLogged(a) /\ calls[a][Len(calls[a])].result = "failed"
         /\ pc[a] # "failed" =>
              \A i \in 1..Len(logged[a]) : SubSeq(logged[a][i], 1, 7) # "Error: "
         /\ (TaskOver(a) /\ NoCallFailed(a)) => pc[a] = "done"
         /\ pc[a] = "done" =>
              /\ calls[a][Len(calls[a])] =
                   [op |-> "AddonCollectionSet", authKey |-> auth_key[a], result |-> "ok"]
              /\ remote[a] = payload[a]
         /\ (mainpc = "gather" /\ ~Finished(pc[a]) /\ a \notin hung) => ENABLED TaskStep(a)
    /\ (mainpc = "gather" /\ \A a \in Accounts : Finished(pc[a])) => ENABLED JoinAll

C6_Step ==
  \A a \in Accounts :
    (pc[a] # "failed" /\ pc'[a] = "failed") =>
      /\ mainpc' = mainpc
      /\ \A b \in Accounts \ {a} :
           /\ pc'[b] = pc[b]
           /\ calls'[b] = calls[b]
           /\ payload'[b] = payload[b]
           /\ logged'[b] = logged[b]
           /\ remote'[b] = remote[b]

\* C6: a failed remote call of account a moves only a to Failed, with an error
\* line under a's identifier; every other task keeps its state and can still
\* take its steps, an account whose own calls all succeed ends Done with its
\* Collection replaced, and the join completes.
C6_FailureIsolated == []C6_State /\ [][C6_Step]_vars

\* C6 witness: the batch joined with one account Failed and the other Done
C6_Witness ==
  /\ mainpc = "exited" /\ option = "1"
  /\ \E a, b \in Accounts :
       /\ a # b
       /\ pc[a] = "failed" /\ ErrorLogged(a)
       /\ pc[b] = "done" /\ remote[b] = payload[b] /\ ~ErrorLogged(b)

\* C7: a second batch run right after a first one, both Done for the account
\* and the cache unchanged, leaves the Collection the first run left.
C7_SecondRunSameResult ==
  \A e \in Accounts :
    ( /\ mainpc = "exited" /\ option = "1" /\ pc[e] = "done"
      /\ prev.option = "1" /\ e \in prev.done ) =>
      remote[e] = prev.remote[e]

\* C8: a successful clone of A followed by a batch in which B ends Done leaves
\* B's Collection equal to B's allow-listed or keyword-matched addons followed
\* by A's other addons.
C8_CloneThenProcess ==
  \A a, b \in Accounts :
    ( /\ mainpc = "exited" /\ option = "1" /\ pc[b] = "done"
      /\ prev.option = "2" /\ a \in prev.cloned ) =>
      remote[b] = KeptInOrder(prev.remote[b]) \o DroppedInOrder(prev.remote[a])

\* C8 witness: both segments non-empty, and the cloned account had addons
\* that were not cloned
C8_Witness ==
  \E a, b \in Accounts :
    /\ a # b
    /\ mainpc = "exited" /\ option = "1" /\ pc[b] = "done"
    /\ prev.option = "2" /\ a \in prev.cloned
    /\ KeptInOrder(prev.remote[b]) # <<>>
    /\ DroppedInOrder(prev.remote[b]) # <<>>
    /\ KeptInOrder(prev.remote[a]) # <<>>
    /\ DroppedInOrder(prev.remote[a]) # <<>>
    /\ remote[b] = KeptInOrder(prev.remote[b]) \o DroppedInOrder(prev.remote[a])

\* C9: in every state of a batch each entry of the credential table has the
\* password of its row, and the token of its row unless the account's own
\* Authenticate succeeded, and then the token that call returned.
C9_OwnKeyOnly ==
  InBatch =>
    /\ DOMAIN login_data = DOMAIN csvFile.rows
    /\ \A e \in DOMAIN login_data :
         /\ login_data[e].password = csvFile.rows[e].password
         /\ login_data[e].auth_token =
              IF LoggedIn(e) THEN FreshToken(e) ELSE csvFile.rows[e].auth_token

\* C9 witness: after the join one entry holds a new token, the other its old one
C9_Witness ==
  /\ mainpc = "exited" /\ option = "1"
  /\ \E a, b \in DOMAIN login_data :
       /\ a # b
       /\ LoggedIn(a) /\ login_data[a].auth_token = FreshToken(a)
       /\ ~LoggedIn(b) /\ login_data[b].auth_token = StoredToken(b)
       /\ TaskOver(a) /\ TaskOver(b)

IsSuffix(suffix, list) ==
  /\ Len(suffix) <= Len(list)
  /\ SubSeq(list, Len(list) - Len(suffix) + 1, Len(list)) = suffix

C10_State ==
  InBatch =>
    \A e \in Accounts :
      pc[e] \in {"update", "done"} => IsSuffix(custom_addons, payload[e])

C10_Step == mainpc = "gather" => custom_addons' = custom_addons

\* C10: from the load to the join no step changes the shared cache list, and
\* every Collection sent ends with that same list.
C10_CacheReadOnly == []C10_State /\ [][C10_Step]_vars

\* C10 witness: both accounts done after extending their lists with a non-empty cache
C10_Witness ==
  /\ mainpc = "exited" /\ option = "1"
  /\ custom_addons # <<>>
  /\ \A e \in Accounts :
       pc[e] = "done" /\ Len(payload[e]) > Len(custom_addons)
                      /\ IsSuffix(custom_addons, payload[e])

\* the clone workflow of this run, for account e, ended with both requests answered
CloneSucceeded(e) ==
  /\ option = "2" /\ mainpc = "exited"
  /\ Len(calls[e]) = 2 /\ calls[e][2].result = "ok"

\* the clone workflow of this run, for account e, ended on a failed request
CloneFailed(e) ==
  /\ option = "2" /\ mainpc = "exited"
  /\ calls[e] # <<>> /\ calls[e][Len(calls[e])].result = "failed"

\* C11: after a clone whose Authenticate and fetchCollection both succeeded the
\* cache file holds exactly the descriptors of the fetched Collection that are
\* neither allow-listed nor keyword-matched, in their order, and nothing of
\* what the file held before.
C11_CloneWritesDropped ==
  \A e \in Accounts :
    CloneSucceeded(e) =>
      /\ cacheFile.exists
      /\ cacheFile.text = JsonDump(DroppedInOrder(remote[e]))
      /\ JsonLoad(cacheFile.text) = DroppedInOrder(remote[e])

\* C11 witness: the first run clones <<Foo, Cinemeta>>; the only initial state
\* with these two Collections has a cache file holding <<Trakt>>, which is gone
C11_Witness ==
  /\ runs = 1
  /\ remote = [e \in Accounts |-> IF e = "a@x" THEN <<Foo, Cinemeta>> ELSE <<Trakt>>]
  /\ CloneSucceeded("a@x")
  /\ JsonLoad(cacheFile.text) = <<Foo>>

\* C12: in clone mode no replaceCollection is ever sent and no task is started;
\* a clone that fails at Authenticate or at fetchCollection reports the error,
\* logs nothing, and the step that fails leaves the cache file as it was.
C12_State ==
  option = "2" =>
    /\ pc = NoTasks
    /\ \A e \in Accounts :
         /\ CallsOf(e, "AddonCollectionSet") = {}
         /\ CloneFailed(e) =>
              /\ logged = NoLines
              /\ SubSeq(stdout[Len(stdout)], 1, 22) = "Error cloning addons: "

C12_Step ==
  (option = "2" /\ cacheFile' # cacheFile) =>
    \E e \in Accounts : Len(calls'[e]) = 2 /\ calls'[e][2].result = "ok"

C12_FailedCloneKeepsCache == []C12_State /\ [][C12_Step]_vars

\* C12 witness: the clone failed at fetchCollection, after a successful
\* Authenticate, and there is a non-empty cache file
C12_Witness ==
  \E e \in Accounts :
    /\ CloneFailed(e)
    /\ Len(calls[e]) = 2 /\ calls[e][1].result = "ok"
    /\ cacheFile.exists /\ cacheFile.text # <<>>

Count(e, op) == Cardinality(CallsOf(e, op))

\* C13: for a row with a blank token the first request is the one
\* Authenticate of the run; every fetchCollection carries a non-blank token
\* and follows the successful Authenticate; a failed Authenticate leaves the
\* account Failed with that single request.
C13_BlankTokenLogsInOnce ==
  \A e \in Accounts :
    (InBatch /\ BlankRow(e)) =>
      /\ calls[e] # <<>> => calls[e][1].op = "Login"
      /\ Count(e, "Login") <= 1
      /\ TaskOver(e) => Count(e, "Login") = 1
      /\ \A i \in CallsOf(e, "AddonCollectionGet") :
           /\ calls[e][i].authKey # Blank
           /\ \E j \in CallsOf(e, "Login") : j < i /\ calls[e][j].result = "ok"
      /\ (calls[e] # <<>> /\ calls[e][1].result = "failed") =>
           /\ pc[e] = "failed"
           /\ Len(calls[e]) = 1

\* C13 witness: two rows with blank tokens, one ends Done after Authenticate,
\* fetch and replace, the other Failed on its Authenticate
C13_Witness ==
  \E e, f \in Accounts :
    /\ InBatch /\ BlankRow(e) /\ BlankRow(f)
    /\ pc[e] = "done" /\ Len(calls[e]) = 3 /\ calls[e][2].authKey = FreshToken(e)
    /\ pc[f] = "failed" /\ Len(calls[f]) = 1

\* C14: in a batch an account sends at most one Authenticate, two
\* fetchCollection and one replaceCollection; a failed request is the last one
\* of the account, except the first fetchCollection made with a stored token,
\* which is followed by the Authenticate and not by another request of its kind
\* until that has succeeded.
C14_State ==
  InBatch =>
    \A e \in Accounts :
      /\ Count(e, "Login") <= 1
      /\ Count(e, "AddonCollectionGet") <= 2
      /\ Count(e, "AddonCollectionSet") <= 1
      /\ Len(calls[e]) <= 4
      /\ \A i \in 1..Len(calls[e]) :
           calls[e][i].result = "failed" =>
             \/ i = Len(calls[e]) /\ pc[e] = "failed"
             \/ /\ i = 1 /\ calls[e][1].op = "AddonCollectionGet" /\ StoredRow(e)
                /\ calls[e][2].op = "Login"

\* a task that has Failed sends nothing more in that run
C14_Step ==
  \A e \in Accounts :
    (InBatch /\ pc[e] = "failed") => (calls'[e] = calls[e] \/ runs' # runs)

C14_BoundedRetry == []C14_State /\ [][C14_Step]_vars

\* C14 witness: the longest history, ending on the failed second fetch, beside
\* an account whose replaceCollection failed
C14_Witness ==
  \E e, f \in Accounts :
    /\ InBatch
    /\ pc[e] = "failed" /\ Len(calls[e]) = 3 /\ calls[e][1].result = "failed"
    /\ calls[e][3].op = "AddonCollectionGet"
    /\ pc[f] = "failed" /\ calls[f][Len(calls[f])].op = "AddonCollectionSet"

\* C15: a replaceCollection directly follows a successful fetchCollection of
\* the same account and carries the token of that fetch; while it is in flight
\* the payload is computed from the Collection fetched; an account's remote
\* Collection changes only in the step in which that request succeeds, so an
\* account that Failed without a successful fetch has the Collection the run
\* started with.
C15_State ==
  InBatch =>
    \A e \in Accounts :
      /\ \A i \in CallsOf(e, "AddonCollectionSet") :
           /\ i > 1
           /\ calls[e][i - 1].op = "AddonCollectionGet"
           /\ calls[e][i - 1].result = "ok"
           /\ calls[e][i - 1].authKey = calls[e][i].authKey
           /\ calls[e][i].authKey # Blank
      /\ pc[e] = "update" => payload[e] = KeptInOrder(remote[e]) \o custom_addons
      /\ (runs > 1 /\ pc[e] = "failed" /\ CallsOf(e, "AddonCollectionSet") = {}) =>
           remote[e] = prev.remote[e]

C15_Step ==
  \A e \in Accounts :
    remote'[e] # remote[e] =>
      /\ pc[e] = "update" /\ pc'[e] = "done"
      /\ calls[e][Len(calls[e])].op = "AddonCollectionSet"
      /\ remote'[e] = payload[e]

C15_ReplaceOnlyAfterFetch == []C15_State /\ [][C15_Step]_vars

\* C15 witness: in a second run one account Failed on its Authenticate and
\* keeps its non-empty Collection, the other replaced its own with the token
\* its Authenticate returned
C15_Witness ==
  \E e, f \in Accounts :
    /\ InBatch /\ runs = 2
    /\ pc[e] = "failed" /\ Len(calls[e]) = 1
    /\ remote[e] = prev.remote[e] /\ remote[e] # <<>>
    /\ pc[f] = "done" /\ Len(calls[f]) = 3
    /\ calls[f][3].authKey = FreshToken(f)
    /\ remote[f] # prev.remote[f]

\* C16: under fair scheduling the task of every account reaches Done or
\* Failed unless one of its own requests never returns, whatever the requests
\* of the other accounts do.
C16_HangStallsOnlyItsTask ==
  \A b \in Accounts :
    (mainpc = "gather" /\ pc[b] # "none") ~> (TaskOver(b) \/ b \in hung)

\* C16 witness: a request of one account never returns and the other account
\* is Done after that
C16_Witness ==
  \E a, b \in Accounts :
    /\ a # b
    /\ mainpc = "gather"
    /\ a \in hung /\ Waiting(pc[a])
    /\ b \notin hung /\ pc[b] = "done"

\* C17: in a batch in which every request returns, under fair scheduling the
\* join completes and the run ends, and at that point every task is Done or
\* Failed.
C17_Ended ==
  (option = "1" /\ mainpc = "exited") => \A e \in Accounts : Finished(pc[e])

C17_BatchTerminates ==
  /\ []C17_Ended
  /\ (mainpc = "gather") ~> (mainpc = "exited" \/ hung # {})
  /\ \A e \in Accounts :
       (mainpc = "gather" /\ pc[e] # "none") ~> (TaskOver(e) \/ hung # {})

\* C17 witness: the run ended with one account Done and one Failed, no request
\* was left unanswered, and main printed its last line (which counts the tasks
\* launched)
C17_Witness ==
  \E e, f \in Accounts :
    /\ option = "1" /\ mainpc = "exited" /\ hung = {}
    /\ pc[e] = "done" /\ pc[f] = "failed"
    /\ stdout[Len(stdout)] = "Processed 2 accounts successfully."

EntryOk(entry) == entry.ok

\* one Descriptor for each line whose manifest was fetched, in the order typed
DescriptorsFetched(entries) ==
  LET fetched == SelectSeq(entries, EntryOk)
  IN [ k \in 1..Len(fetched) |->
         [ manifest |-> Served(EnteredUrl(fetched[k].typed)),
           transportUrl |-> EnteredUrl(fetched[k].typed),
           flags |-> DefaultFlags ] ]

\* C18: when the loader runs with a cache file it returns the parsed file and
\* prompts for nothing, fetches nothing and writes nothing; without one, the
\* list it returns and the file it writes hold one Descriptor for every line
\* whose manifest was fetched, in the order typed, nothing for the others,
\* and every line typed was fetched once.
C18_Step ==
  (mainpc = "load" /\ mainpc' = "csv") =>
    IF cacheFile.exists
    THEN /\ custom_addons' = JsonLoad(cacheFile.text)
         /\ cacheFile' = cacheFile
         /\ entered' = <<>>
         /\ logged' = logged
    ELSE /\ custom_addons' = DescriptorsFetched(entered')
         /\ cacheFile'.exists
         /\ JsonLoad(cacheFile'.text) = custom_addons'
         /\ Len(logged'["INIT"]) = Len(entered')

C19_MissingStoreIsFatal ==
  (option = "1" /\ ~csvFile.exists) =>
    /\ mainpc \in {"load", "csv", "crashed"}
    /\ pc = NoTasks
    /\ calls = NoCalls
    /\ process_count = 0

\* C19 witness: the run has stopped at the open of line 194
C19_Witness ==
  /\ option = "1" /\ ~csvFile.exists
  /\ mainpc = "crashed"
  /\ custom_addons # <<>>

\* the URL with its trailing '/configure', and nothing else, replaced
TrailingReplaced(url) ==
  IF EndsWith(url, "/configure")
  THEN SubSeq(url, 1, Len(url) - Len("/configure")) \o "/manifest.json"
  ELSE url

\* C20: the URL fetched, and stored as transportUrl, for a line typed at the
\* prompt is the line with only a trailing '/configure' replaced by
\* '/manifest.json'; an earlier '/configure' in it stays.
C20_OnlyTrailingSuffixReplaced ==
  /\ \A i \in 1..Len(entered) :
       LET url == TrailingReplaced(Strip(entered[i].typed))
       IN logged["INIT"][i] =
            IF entered[i].ok THEN "Fetched manifest from " \o url \o "."
            ELSE "Failed to fetch manifest from " \o url \o ". Error: "
  /\ mainpc = "csv" =>
       LET fetched == SelectSeq(entered, EntryOk)
       IN \A k \in 1..Len(fetched) :
            custom_addons[k].transportUrl = TrailingReplaced(Strip(fetched[k].typed))

====
